---- MODULE Spec2Model ----
(***************************************************************************)
(* Model of plugins/ticker/plugin.py (TickerPlugin): the 15-minute tick    *)
(* scheduler, the market clock, the ticker broadcaster, the prediction     *)
(* store with its submission handler, and the prediction resolver.         *)
(*                                                                         *)
(* Prices are integers (cents).  A percentage is the exact fraction        *)
(* [num, den] with den > 0, so that no rounding is introduced.             *)
(* The reactor is single threaded: every action below is the code that     *)
(* runs between two yields of an inlineCallbacks generator.                *)
(***************************************************************************)
EXTENDS Integers, Sequences, FiniteSets, TLC

VARIABLES
    now,          \* wall clock est_now(), seconds since Monday 00:00:00
    config,       \* self.config: [channels, stocks]
    db,           \* db['predictions']: ordered symbol -> ordered nick -> prediction
    ninst,        \* number of TickerPlugin instances constructed so far
    call_id,      \* per instance: self.call_id, the reactor's DelayedCall
    closed,       \* per instance: close() has been called on it
    close_raised, \* a close() call let an exception propagate
    body,         \* per tick fired: where its inlineCallbacks generator is suspended
    nticks,       \* number of ticks fired so far
    in_flight,    \* predict() calls suspended on their quote fetch
    ncmds,        \* number of predict commands received so far
    nsaved,       \* number of predictions saved so far (identity of a saved dict)
    outbox,       \* cardinal.sendMsg calls made by the last step
    reported,     \* per saved prediction: number of send_prediction calls for it
    deferred,     \* saved predictions a failed quote fetch has left in the store
    settled,      \* the result of the quote request that settled in the last step
    tickstate     \* the flags computed by the tick of this step (lines 148-169)

vars == <<now, config, db, ninst, call_id, closed, close_raised, body, nticks,
          in_flight, ncmds, nsaved, outbox, reported, deferred, settled,
          tickstate>>

(***************************************************************************)
(* Bounds of the model                                                     *)
(***************************************************************************)
MaxTicks == 2
MaxSaves == 1

\* an instance and the one that replaces it on a reload
Instances == {1, 2}

None == "None"

Nicks == {"u1", "u2"}
Symbols == {"AAA", "BBB"}

(***************************************************************************)
(* Wall clock                                                              *)
(***************************************************************************)
DaySecs == 24 * 3600

TimeOf(w, h, m, s) == w * DaySecs + h * 3600 + m * 60 + s

weekday(t) == (t \div DaySecs) % 7
hour(t) == (t % DaySecs) \div 3600
minute(t) == (t % 3600) \div 60
second(t) == t % 60

\* market_is_open(), lines 42-52
market_is_open(t) ==
    LET is_market_closed ==
            \/ weekday(t) >= 5
            \/ (hour(t) < 9 \/ hour(t) >= 17)
            \/ (hour(t) = 9 /\ minute(t) < 30)
            \/ (hour(t) = 16 /\ minute(t) > 0)
    IN  ~is_market_closed

\* a tick() that takes the market as closed from 16:00 on
tick_is_market_open_closing(t) ==
    ~( \/ weekday(t) >= 5
       \/ (hour(t) < 9 \/ hour(t) >= 16)
       \/ (hour(t) = 9 /\ minute(t) < 30) )

\* tick(), lines 151-155: the inline computation of is_market_open
tick_is_market_open(t) ==
    ~( \/ weekday(t) >= 5
       \/ (hour(t) < 9 \/ hour(t) >= 17)
       \/ (hour(t) = 9 /\ minute(t) < 30)
       \/ (hour(t) = 16 /\ minute(t) > 0) )

\* a tick() that takes every minute from 09:30 to 09:59 as the opening
tick_is_open_late(t) == hour(t) = 9 /\ minute(t) >= 30

\* tick(), line 158
tick_is_open(t) == hour(t) = 9 /\ minute(t) = 30

\* tick(), line 159
tick_is_close(t) == hour(t) = 16 /\ minute(t) = 0

\* a tick() that starts the resolver at 09:30 and 16:00 of every day
should_do_predictions_daily(t) == tick_is_open(t) \/ tick_is_close(t)

\* tick(), lines 162-164
should_do_predictions(t) ==
    IF tick_is_market_open(t) /\ (tick_is_open(t) \/ tick_is_close(t))
    THEN TRUE ELSE FALSE

\* tick(), lines 168-169
should_send_ticker(t, cfg) ==
    tick_is_market_open(t) /\ cfg.channels # <<>> /\ cfg.stocks # <<>>

\* the flags of one tick, lines 148-169
TickState(t, cfg) ==
    [ at |-> t,
      is_market_open |-> tick_is_market_open(t),
      is_open |-> tick_is_open(t),
      is_close |-> tick_is_close(t),
      should_do_predictions |-> should_do_predictions(t),
      should_send_ticker |-> should_send_ticker(t, cfg) ]

NoTickState ==
    [ at |-> 0, is_market_open |-> FALSE, is_open |-> FALSE, is_close |-> FALSE,
      should_do_predictions |-> FALSE, should_send_ticker |-> FALSE ]

(***************************************************************************)
(* Percentages and colours                                                 *)
(***************************************************************************)
\* get_delta(), lines 55-56: new/old*100 - 100 as the exact fraction
get_delta(new_value, old_value) ==
    [num |-> (new_value - old_value) * 100, den |-> old_value]

\* colorize(), lines 59-64 (the denominator of a percentage is positive)
colorize(percentage) ==
    [ pct |-> percentage,
      color |-> IF percentage.num > 0 THEN "light_green" ELSE "light_red" ]

(***************************************************************************)
(* Quote fetcher                                                           *)
(***************************************************************************)
QuoteFields == {"symbol", "latestPrice", "previousClose", "changePercent"}

\* bodies the quote source may answer with for `symbol`; changePercent is a
\* ratio, here the fraction [num, den]
QuoteBodies(symbol) ==
    { [symbol |-> symbol, latestPrice |-> 10000, previousClose |-> 9800,
       changePercent |-> [num |-> 200, den |-> 9800]],
      [symbol |-> symbol, latestPrice |-> 9800, previousClose |-> 10000,
       changePercent |-> [num |-> -200, den |-> 10000]],
      [symbol |-> symbol, latestPrice |-> 10000, previousClose |-> 10000,
       changePercent |-> [num |-> 0, den |-> 10000]] }

\* an error body: the expected fields are missing
ErrorBody == [error |-> "Unknown symbol"]

\* what requests.get(url) may produce: an exception, or a response with a body
AllResponses(symbol) ==
    {[kind |-> "exception"]} \cup
    {[kind |-> "json", data |-> b] : b \in QuoteBodies(symbol) \cup {ErrorBody}}

\* a narrower choice: an exception, an error body, one quote
Responses(symbol) ==
    { [kind |-> "exception"],
      [kind |-> "json", data |-> ErrorBody],
      [kind |-> "json", data |->
          [symbol |-> symbol, latestPrice |-> 10000, previousClose |-> 9800,
           changePercent |-> [num |-> 200, den |-> 9800]]] }

\* make_iex_request(), lines 481-497: the result of the Deferred.
\* st = "failure": the Deferred fails; st = "none": the KeyError was logged
\* and None is returned; st = "data": the normalised quote
make_iex_request(response) ==
    IF response.kind = "exception" THEN [st |-> "failure"]
    ELSE IF ~(QuoteFields \subseteq DOMAIN response.data) THEN [st |-> "none"]
    ELSE [ st |-> "data",
           symbol |-> response.data.symbol,
           price |-> response.data.latestPrice,
           previous_close |-> response.data.previousClose,
           change |-> [num |-> response.data.changePercent.num * 100,
                       den |-> response.data.changePercent.den] ]

\* get_daily(), lines 478-479
get_daily(response) == make_iex_request(response)

(***************************************************************************)
(* Prediction store: db['predictions'], a dict of dicts.  A dict is the    *)
(* sequence of its items in insertion order.                               *)
(***************************************************************************)
\* list(d.keys()) of the outer dict
keys(d) == [i \in 1..Len(d) |-> d[i].symbol]

\* symbol in d
has_key(d, symbol) == \E i \in 1..Len(d) : d[i].symbol = symbol

\* d[symbol], for a key that is present
item(d, symbol) == d[CHOOSE i \in 1..Len(d) : d[i].symbol = symbol].predictions

\* d.get(symbol, {})
get_default(d, symbol) == IF has_key(d, symbol) THEN item(d, symbol) ELSE <<>>

\* nick in predictions (inner dict)
has_nick(predictions, nick) ==
    \E i \in 1..Len(predictions) : predictions[i].nick = nick

\* predictions[nick], for a key that is present
by_nick(predictions, nick) ==
    predictions[CHOOSE i \in 1..Len(predictions) : predictions[i].nick = nick]

\* a store that appends a submitter's new prediction to the old ones
set_nick_append(predictions, value) == Append(predictions, value)

\* predictions[nick] = value: an existing key keeps its position
set_nick(predictions, value) ==
    IF has_nick(predictions, value.nick)
    THEN [i \in 1..Len(predictions) |->
            IF predictions[i].nick = value.nick THEN value ELSE predictions[i]]
    ELSE Append(predictions, value)

\* d[symbol] = predictions: an existing key keeps its position
set_item(d, symbol, predictions) ==
    IF has_key(d, symbol)
    THEN [i \in 1..Len(d) |->
            IF d[i].symbol = symbol
            THEN [symbol |-> symbol, predictions |-> predictions] ELSE d[i]]
    ELSE Append(d, [symbol |-> symbol, predictions |-> predictions])

\* del d[symbol]
del_item(d, symbol) == SelectSeq(d, LAMBDA e : e.symbol # symbol)

\* the dict of lines 467-471; `id` is its identity
Prediction(nick, when, base, prediction, id) ==
    [nick |-> nick, when |-> when, base |-> base, prediction |-> prediction,
     id |-> id]

\* save_prediction(), lines 464-472
save_prediction(d, symbol, nick, base, prediction, when, id) ==
    LET predictions == get_default(d, symbol)
        value == Prediction(nick, when, base, prediction, id)
    IN  set_item(d, symbol, set_nick(predictions, value))

\* every prediction held by the store
Stored(d) ==
    UNION { {d[i].predictions[j] : j \in 1..Len(d[i].predictions)} :
            i \in 1..Len(d) }

\* the identities of the predictions held by the store
ids_of(d) == {p.id : p \in Stored(d)}

(***************************************************************************)
(* Messages: one record per cardinal.sendMsg(channel, text) call           *)
(***************************************************************************)
\* a broadcast that reaches the first configured channel only
to_channels_first(channels, m) ==
    IF channels = <<>> THEN <<>> ELSE <<[channel |-> channels[1], msg |-> m]>>

\* for channel in self.config["channels"]: self.cardinal.sendMsg(channel, m)
to_channels(channels, m) ==
    [i \in 1..Len(channels) |-> [channel |-> channels[i], msg |-> m]]

\* 'open' if market_is_open() else 'close', lines 288 and 317
market_open_close(t) == IF market_is_open(t) THEN "open" ELSE "close"

(***************************************************************************)
(* Ticker broadcaster                                                      *)
(***************************************************************************)
\* self.stocks, lines 106-108: the configured (symbol, name) pairs in order
stocks(cfg) == cfg.stocks

\* send_ticker(), lines 190-199: errback then callback on one fetch; the
\* callback subscripts the result, which fails on None
ticker_result(res) ==
    IF res.st = "data"
    THEN [st |-> "ok", symbol |-> res.symbol, change |-> res.change]
    ELSE [st |-> "failed"]

PendingResult == [st |-> "pending"]

\* format_symbol(), lines 228-235
format_symbol(cfg, i, change) ==
    [name |-> stocks(cfg)[i].name, symbol |-> stocks(cfg)[i].symbol,
     change |-> colorize(change)]

\* send_ticker(), lines 205-211: the results dict, symbol -> change, as the
\* successful results in DeferredList order (a later equal key overwrites)
ticker_results(results) == SelectSeq(results, LAMBDA r : r.st = "ok")

\* symbol in results
in_results(results, symbol) ==
    \E j \in 1..Len(results) : results[j].symbol = symbol

\* results[symbol]: the last value stored under the key
result_of(results, symbol) ==
    LET js == {j \in 1..Len(results) : results[j].symbol = symbol}
    IN  results[CHOOSE j \in js : \A l \in js : l <= j].change

\* format_ticker(), lines 217-226: the parts, in the order of self.stocks
RECURSIVE format_parts(_, _, _)
format_parts(cfg, results, n) ==
    IF n = 0 THEN <<>>
    ELSE LET rest == format_parts(cfg, results, n - 1)
             symbol == stocks(cfg)[n].symbol
         IN  IF in_results(results, symbol)
             THEN Append(rest, format_symbol(cfg, n, result_of(results, symbol)))
             ELSE rest

\* a digest that lists the symbols last to first
format_ticker_reversed(cfg, results) ==
    LET parts == format_parts(cfg, results, Len(stocks(cfg)))
    IN  [kind |-> "ticker",
         parts |-> [a \in 1..Len(parts) |-> parts[Len(parts) + 1 - a]]]

format_ticker(cfg, results) ==
    [kind |-> "ticker", parts |-> format_parts(cfg, results, Len(stocks(cfg)))]

(***************************************************************************)
(* Prediction resolver                                                     *)
(***************************************************************************)
abs(x) == IF x < 0 THEN -x ELSE x

\* closest_prediction, closest_delta, closest_nick = None, lines 265-267
NoClosest == [set |-> FALSE, prediction |-> 0, delta |-> 0, nick |-> None]

\* line 276: `not closest_delta or delta < closest_delta`; `not` holds of
\* None and of a delta of 0
is_closer(closest, delta) ==
    (~closest.set \/ closest.delta = 0) \/ delta < closest.delta

\* lines 273-279: the closest guess after the first n items of the snapshot
RECURSIVE closest_guess(_, _, _)
closest_guess(predictions, actual, n) ==
    IF n = 0 THEN NoClosest
    ELSE LET closest == closest_guess(predictions, actual, n - 1)
             prediction == predictions[n]
             delta == abs(actual - prediction.prediction)
         IN  IF is_closer(closest, delta)
             THEN [set |-> TRUE, prediction |-> prediction.prediction,
                   delta |-> delta, nick |-> prediction.nick]
             ELSE closest

\* send_prediction(), lines 310-335: the text sent to every channel
prediction_message(nick, symbol, prediction, actual, t) ==
    [ kind |-> "prediction",
      nick |-> nick,
      symbol |-> symbol,
      prediction |-> prediction.prediction,
      prediction_change |->
          colorize(get_delta(prediction.prediction, prediction.base)),
      at |-> market_open_close(t),
      actual |-> actual,
      actual_change |-> colorize(get_delta(actual, prediction.base)),
      when |-> prediction.when ]

\* lines 273-286: the sendMsg calls of the loop over the snapshot
RECURSIVE send_predictions(_, _, _, _, _, _)
send_predictions(channels, symbol, predictions, actual, t, n) ==
    IF n = 0 THEN <<>>
    ELSE send_predictions(channels, symbol, predictions, actual, t, n - 1) \o
         to_channels(channels,
             prediction_message(predictions[n].nick, symbol, predictions[n],
                                actual, t))

\* lines 288-304: the summary; `prediction` is the loop variable as the loop
\* left it, the last item of the snapshot
summary_message(symbol, predictions, actual, t) ==
    LET closest == closest_guess(predictions, actual, Len(predictions))
        prediction == predictions[Len(predictions)]
    IN  [ kind |-> "summary",
          nick |-> closest.nick,
          symbol |-> symbol,
          count |-> Len(predictions),
          prediction |-> closest.prediction,
          prediction_change |->
              colorize(get_delta(closest.prediction, prediction.base)),
          at |-> market_open_close(t),
          actual |-> actual,
          actual_change |-> colorize(get_delta(actual, prediction.base)) ]

\* lines 257-260
error_message(symbol) == [kind |-> "error", symbol |-> symbol]

(***************************************************************************)
(* Prediction submission                                                   *)
(***************************************************************************)
\* A !predict message as PREDICT_REGEX (line 27) splits it: group 1 is the
\* relayed nick, group 2 the symbol, group 3 the sign, group 4 the
\* percentage, group 5 the price; exactly one of groups 4 and 5 is present
Command(user, relay, is_relay_bot, symbol, sign, has_pct, number) ==
    [ user |-> user, relay |-> relay, is_relay_bot |-> is_relay_bot,
      symbol |-> symbol, sign |-> sign, has_pct |-> has_pct,
      number |-> number, channel |-> "#cmd" ]

\* parse_prediction(), lines 419-427: None when a relayed message does not
\* come from a relay bot, else the nick
parse_nick(cmd) ==
    IF cmd.relay # None
    THEN IF ~cmd.is_relay_bot THEN None ELSE cmd.relay
    ELSE cmd.user

\* parse_prediction(), lines 432-462, once the quote is there:
\* st = "raise": an exception; st = "none": None; st = "ok": the tuple
parse_prediction(cmd, res, t) ==
    IF res.st # "data" THEN [st |-> "raise"]
    ELSE LET base == IF market_is_open(t) THEN res.previous_close ELSE res.price
             negative_percentage == cmd.sign = "-"
             percentage == cmd.has_pct /\ cmd.number # 0
             price == ~cmd.has_pct /\ cmd.number # 0
             share == (cmd.number * base) \div 100
         IN  IF percentage
             THEN [ st |-> "ok", nick |-> parse_nick(cmd), symbol |-> cmd.symbol,
                    prediction |-> IF negative_percentage
                                   THEN base - share ELSE base + share,
                    base |-> base ]
             ELSE IF price
             THEN [ st |-> "ok", nick |-> parse_nick(cmd), symbol |-> cmd.symbol,
                    prediction |-> cmd.number, base |-> base ]
             ELSE [st |-> "none"]

\* predict(), lines 391-403: the replaced prediction quoted in the reply
old_str(d, symbol, nick) ==
    IF has_key(d, symbol) /\ has_nick(item(d, symbol), nick)
    THEN LET old_prediction == by_nick(item(d, symbol), nick)
         IN  [ set |-> TRUE,
               prediction |-> old_prediction.prediction,
               change |-> colorize(get_delta(old_prediction.prediction,
                                             old_prediction.base)),
               when |-> old_prediction.when ]
    ELSE [set |-> FALSE]

\* predict(), lines 407-415
confirm_message(p, old, t) ==
    [ kind |-> "confirm",
      nick |-> p.nick,
      symbol |-> p.symbol,
      at |-> IF market_is_open(t) THEN "close" ELSE "open",
      prediction |-> p.prediction,
      change |-> colorize(get_delta(p.prediction, p.base)),
      old |-> old ]

\* predict(), lines 377-379
lookup_failed_message(cmd) == [kind |-> "lookup_failed", nick |-> cmd.user]

(***************************************************************************)
(* Tick scheduler                                                          *)
(***************************************************************************)
ResolverPause == 15
TickerPause == 60

\* a wait() that aims at the next multiple of five minutes
wait_five(t) ==
    [state |-> "pending", due |-> t + (5 - (minute(t) % 5)) * 60]

\* wait(), lines 120-127: the DelayedCall armed at time t
wait(t) ==
    LET minutes_to_sleep == 15 - (minute(t) % 15)
    IN  [state |-> "pending", due |-> t + minutes_to_sleep * 60]

\* reactor: the DelayedCall whose time has come is marked called, then run
fire(h) == [h EXCEPT !.state = "called"]

\* a tick() that arms the next timer only after its body has ended: while
\* the body runs self.call_id is still the handle that has fired
tick_call_id_late(h, t) == h

\* tick(), line 144: self.call_id once tick() has run its first statement
tick_call_id(h, t) == wait(t)

\* a close() that leaves the handle alone
cancel_nothing(h) == [h |-> h, raised |-> FALSE]

\* DelayedCall.cancel() under close()'s try/except, lines 130-134: the handle
\* afterwards, and whether an exception leaves close()
cancel(h) ==
    IF h.state = "pending"
    THEN [h |-> [state |-> "cancelled", due |-> 0], raised |-> FALSE]
    ELSE IF h.state = "cancelled" THEN [h |-> h, raised |-> FALSE]
    ELSE [h |-> h, raised |-> TRUE]

NoCall == [state |-> "none", due |-> 0]

\* no quote request settled in this step
NoResult == [st |-> "idle"]

IdleBody ==
    [ pc |-> "idle", inst |-> 0, at |-> 0, predict |-> FALSE, results |-> <<>>,
      symbols |-> <<>>, idx |-> 0, wake |-> 0, fetched |-> 0 ]

(***************************************************************************)
(* Inputs                                                                  *)
(***************************************************************************)
\* wall-clock instants at which an instance is constructed
StartTimes ==
    { TimeOf(4, 9, 17, 20),    \* Friday 09:17:20
      TimeOf(4, 15, 50, 0),    \* Friday 15:50:00
      TimeOf(5, 9, 20, 0) }    \* Saturday 09:20:00

AllStocks == << [symbol |-> "AAA", name |-> "Alpha"],
                [symbol |-> "BBB", name |-> "Beta"] >>

\* the configurations __init__ accepts (lines 72-89)
Configs ==
    { [channels |-> <<"#a", "#b">>, stocks |-> AllStocks],
      [channels |-> <<>>, stocks |-> AllStocks],
      [channels |-> <<"#a">>, stocks |-> <<>>] }

\* the persisted stores an instance may find when it is constructed
\* (get_db, lines 99-101): none, or predictions saved on Thursday at noon
InitStores ==
    { <<>>,
      << [symbol |-> "AAA", predictions |->
             <<Prediction("u1", TimeOf(3, 12, 0, 0), 9800, 10500, 1)>>],
         [symbol |-> "BBB", predictions |->
             <<Prediction("u2", TimeOf(3, 12, 0, 0), 10000, 9800, 2)>>] >> }

\* the most predictions a persisted store of InitStores holds
MaxStored ==
    CHOOSE n \in 0..4 :
        /\ \E d \in InitStores : Cardinality(Stored(d)) = n
        /\ \A d \in InitStores : Cardinality(Stored(d)) <= n

\* the !predict messages received
Commands ==
    { Command("u1", None, FALSE, "AAA", None, FALSE, 10000),
      Command("u2", None, FALSE, "AAA", None, FALSE, 10500),
      Command("u1", "u2", FALSE, "BBB", None, FALSE, 9800) }

\* a wider choice of messages, for the specifications of the handlers alone
AllCommands ==
    { Command(n, None, FALSE, s, None, FALSE, v) :
        n \in Nicks, s \in Symbols, v \in {0, 9800, 10000, 10500} }
    \cup
    { Command("u1", None, FALSE, "AAA", sg, TRUE, v) :
        sg \in {None, "+", "-"}, v \in {0, 5, 10} }
    \cup
    { Command("bot", "u2", rb, "BBB", "+", TRUE, 5) : rb \in BOOLEAN }

(***************************************************************************)
(* Initial state: the first instance has just been constructed             *)
(* (__init__, lines 68-104)                                                *)
(***************************************************************************)
Init ==
    /\ now \in StartTimes
    /\ config \in Configs
    /\ db \in InitStores
    /\ ninst = 1
    /\ call_id = [i \in Instances |-> IF i = 1 THEN wait(now) ELSE NoCall]
    /\ closed = [i \in Instances |-> FALSE]
    /\ close_raised = FALSE
    /\ body = [k \in 1..MaxTicks |-> IdleBody]
    /\ nticks = 0
    /\ in_flight = {}
    /\ ncmds = 0
    /\ nsaved = Cardinality(Stored(db))
    /\ outbox = <<>>
    /\ reported = [id \in 1..(MaxStored + MaxSaves) |-> 0]
    /\ deferred = {}
    /\ settled = NoResult
    /\ tickstate = NoTickState

(***************************************************************************)
(* Plugin life cycle                                                       *)
(***************************************************************************)
\* close(), lines 129-134; the plugin is unloaded to be loaded again, so the
\* last instance of Instances stays loaded
Close(i) ==
    /\ i <= ninst
    /\ i + 1 \in Instances
    /\ closed' = [closed EXCEPT ![i] = TRUE]
    /\ call_id' = [call_id EXCEPT ![i] = cancel(call_id[i]).h]
    /\ close_raised' = (close_raised \/ cancel(call_id[i]).raised)
    /\ outbox' = <<>>
    /\ settled' = NoResult
    /\ UNCHANGED <<now, config, db, ninst, body, nticks, in_flight, ncmds,
                   nsaved, reported, deferred>>
    /\ tickstate' = NoTickState

\* __init__, lines 68-104, of the instance that replaces a closed one
Construct ==
    /\ ninst + 1 \in Instances
    /\ closed[ninst]
    /\ ninst' = ninst + 1
    /\ call_id' = [call_id EXCEPT ![ninst + 1] = wait(now)]
    /\ outbox' = <<>>
    /\ settled' = NoResult
    /\ UNCHANGED <<now, config, db, closed, close_raised, body, nticks,
                   in_flight, ncmds, nsaved, reported, deferred>>
    /\ tickstate' = NoTickState

(***************************************************************************)
(* Time                                                                    *)
(***************************************************************************)
\* the times at which the reactor has something to run
Dues ==
    {call_id[i].due : i \in {j \in Instances : call_id[j].state = "pending"}}
    \cup
    {body[k].wake : k \in {j \in 1..MaxTicks : body[j].pc \in {"pause", "sleep"}}}

\* a quote request is in flight: in predict(), send_ticker() or do_predictions()
requesting ==
    \/ in_flight # {}
    \/ \E k \in 1..MaxTicks : body[k].pc \in {"ticker", "fetch"}

\* time passes up to the next delayed call; with none pending and a closed
\* instance to replace, up to the next instant at which an instance may be
\* constructed.  A quote request settles sooner than that.
Tock ==
    /\ ~requesting
    /\ IF Dues # {}
       THEN /\ \A d \in Dues : d > now
            /\ now' = CHOOSE d \in Dues : \A e \in Dues : d <= e
       ELSE /\ closed[ninst]
            /\ ninst + 1 \in Instances
            /\ \E t \in StartTimes : t > now
            /\ now' = CHOOSE t \in StartTimes :
                          t > now /\ \A u \in StartTimes : u > now => t <= u
    /\ outbox' = <<>>
    /\ settled' = NoResult
    /\ UNCHANGED <<config, db, ninst, call_id, closed, close_raised, body,
                   nticks, in_flight, ncmds, nsaved, reported, deferred>>
    /\ tickstate' = NoTickState

(***************************************************************************)
(* tick() and the generators it runs                                       *)
(***************************************************************************)
\* the generator has returned
done(b) == [IdleBody EXCEPT !.pc = "done"]

\* the generator has raised
raised(b) == [IdleBody EXCEPT !.pc = "raised"]

\* a tick() that starts do_predictions without the pause of line 177
after_ticker_at_once(b, t) ==
    IF b.predict
    THEN [b EXCEPT !.pc = "pause", !.results = <<>>, !.wake = t]
    ELSE done(b)

\* tick(), lines 174-177: after the ticker, the pause before do_predictions
after_ticker(b, t) ==
    IF b.predict
    THEN [b EXCEPT !.pc = "pause", !.results = <<>>, !.wake = t + TickerPause]
    ELSE done(b)

\* do_predictions(), lines 245-247: at time t the loop moves on to the next
\* symbol and requests its quote, or ends
next_symbol(b, t) ==
    IF b.idx < Len(b.symbols)
    THEN [b EXCEPT !.pc = "fetch", !.idx = b.idx + 1, !.wake = 0,
                   !.fetched = t]
    ELSE done(b)

\* tick(), lines 137-177, up to its first yield; send_ticker(), lines
\* 181-204, runs in it up to the yield on the DeferredList
Tick(i) ==
    /\ nticks < MaxTicks
    /\ call_id[i].state = "pending"
    /\ call_id[i].due = now
    /\ LET k == nticks + 1
           ts == TickState(now, config)
           b == [IdleBody EXCEPT !.inst = i, !.at = now,
                                 !.predict = ts.should_do_predictions]
       IN  /\ nticks' = k
           /\ call_id' = [call_id EXCEPT ![i] = tick_call_id(fire(call_id[i]), now)]
           /\ tickstate' = ts
           /\ body' = [body EXCEPT ![k] =
                  IF ts.should_send_ticker
                  THEN [b EXCEPT !.pc = "ticker",
                          !.results = [j \in 1..Len(stocks(config)) |-> PendingResult]]
                  ELSE after_ticker(b, now)]
    /\ outbox' = <<>>
    /\ settled' = NoResult
    /\ UNCHANGED <<now, config, db, ninst, closed, close_raised, in_flight,
                   ncmds, nsaved, reported, deferred>>

\* send_ticker(), lines 186-215: the request for stock j settles; when it is
\* the last one the DeferredList fires and the digest is sent
TickerSettle(k, j, response) ==
    /\ body[k].pc = "ticker"
    /\ j \in 1..Len(body[k].results)
    /\ body[k].results[j] = PendingResult
    /\ LET dl_results == [body[k].results EXCEPT
                             ![j] = ticker_result(get_daily(response))]
           all_settled == \A l \in 1..Len(dl_results) : dl_results[l] # PendingResult
       IN  IF all_settled
           THEN /\ outbox' = to_channels(config.channels,
                       format_ticker(config, ticker_results(dl_results)))
                /\ body' = [body EXCEPT ![k] = after_ticker(body[k], now)]
           ELSE /\ outbox' = <<>>
                /\ body' = [body EXCEPT ![k].results = dl_results]
    /\ settled' = get_daily(response)
    /\ UNCHANGED <<now, config, db, ninst, call_id, closed, close_raised,
                   nticks, in_flight, ncmds, nsaved, reported, deferred>>
    /\ tickstate' = NoTickState

\* tick(), lines 177-178, and do_predictions(), lines 238-247: the pause is
\* over, the symbols are listed and the first quote is requested
PauseWake(k) ==
    /\ body[k].pc = "pause"
    /\ body[k].wake <= now
    /\ LET predicted_symbols == keys(db)
       IN  body' = [body EXCEPT ![k] =
               next_symbol([body[k] EXCEPT !.symbols = predicted_symbols,
                                           !.idx = 0], now)]
    /\ outbox' = <<>>
    /\ settled' = NoResult
    /\ UNCHANGED <<now, config, db, ninst, call_id, closed, close_raised,
                   nticks, in_flight, ncmds, nsaved, reported, deferred>>
    /\ tickstate' = NoTickState

\* a resolver that empties the inner dict of a symbol and keeps its key
snapshot_emptied(d, symbol) ==
    [predictions |-> item(d, symbol), db |-> set_item(d, symbol, <<>>)]

\* a resolver that reads the predictions of a symbol and leaves them stored
snapshot_kept(d, symbol) == [predictions |-> item(d, symbol), db |-> d]

\* do_predictions(), lines 269-271: the snapshot of a symbol and the store
\* without it
snapshot(d, symbol) == [predictions |-> item(d, symbol), db |-> del_item(d, symbol)]

\* the identities of a sequence of predictions
ids(predictions) == {predictions[n].id : n \in 1..Len(predictions)}

\* the send_prediction calls of lines 281-286 counted per saved prediction
count_reports(rep, predictions) ==
    [id \in DOMAIN rep |->
        rep[id] + Cardinality({n \in 1..Len(predictions) : predictions[n].id = id})]

\* do_predictions(), lines 247-308: the quote of the current symbol settles
ResolveSettle(k, symbol, response) ==
    /\ body[k].pc = "fetch"
    /\ symbol = body[k].symbols[body[k].idx]
    /\ LET data == get_daily(response)
       IN  IF data.st # "data"
           THEN \* lines 253-261
                /\ outbox' = to_channels(config.channels, error_message(symbol))
                /\ body' = [body EXCEPT ![k] = next_symbol(body[k], now)]
                /\ deferred' = deferred \cup ids(get_default(db, symbol))
                /\ UNCHANGED <<db, reported>>
           ELSE IF ~has_key(db, symbol)
           THEN \* line 270 raises KeyError
                /\ outbox' = <<>>
                /\ body' = [body EXCEPT ![k] = raised(body[k])]
                /\ UNCHANGED <<db, reported, deferred>>
           ELSE LET actual == data.price
                    snap == snapshot(db, symbol)
                    predictions == snap.predictions
                IN  /\ db' = snap.db
                    /\ deferred' = deferred \ ids(predictions)
                    /\ IF predictions = <<>>
                       THEN \* line 298 formats None
                            /\ outbox' = <<>>
                            /\ body' = [body EXCEPT ![k] = raised(body[k])]
                            /\ UNCHANGED reported
                       ELSE /\ outbox' =
                                  send_predictions(config.channels, symbol,
                                      predictions, actual, now, Len(predictions))
                                  \o to_channels(config.channels,
                                      summary_message(symbol, predictions,
                                                      actual, now))
                            /\ reported' = count_reports(reported, predictions)
                            /\ body' = [body EXCEPT ![k].pc = "sleep",
                                            ![k].wake = now + ResolverPause]
    /\ settled' = get_daily(response)
    /\ UNCHANGED <<now, config, ninst, call_id, closed, close_raised, nticks,
                   in_flight, ncmds, nsaved>>
    /\ tickstate' = NoTickState

\* do_predictions(), line 308 and back to line 245
SleepWake(k) ==
    /\ body[k].pc = "sleep"
    /\ body[k].wake <= now
    /\ body' = [body EXCEPT ![k] = next_symbol(body[k], now)]
    /\ outbox' = <<>>
    /\ settled' = NoResult
    /\ UNCHANGED <<now, config, db, ninst, call_id, closed, close_raised,
                   nticks, in_flight, ncmds, nsaved, reported, deferred>>
    /\ tickstate' = NoTickState

(***************************************************************************)
(* predict()                                                               *)
(***************************************************************************)
\* predict() and parse_prediction(), lines 371-373 and 418-432, up to the
\* yield on the quote
Predict(cmd) ==
    /\ ncmds < MaxSaves
    /\ ~closed[ninst]
    /\ ncmds' = ncmds + 1
    /\ in_flight' = IF parse_nick(cmd) = None THEN in_flight
                    ELSE in_flight \cup {[n |-> ncmds + 1, cmd |-> cmd]}
    /\ outbox' = <<>>
    /\ settled' = NoResult
    /\ UNCHANGED <<now, config, db, ninst, call_id, closed, close_raised, body,
                   nticks, nsaved, reported, deferred>>
    /\ tickstate' = NoTickState

\* parse_prediction(), lines 432-462, and predict(), lines 374-415: the quote
\* settles
PredictSettle(f, response) ==
    /\ f \in in_flight
    /\ in_flight' = in_flight \ {f}
    /\ LET prediction == parse_prediction(f.cmd, get_daily(response), now)
       IN  IF prediction.st = "raise"
           THEN /\ outbox' = <<[channel |-> f.cmd.channel,
                                msg |-> lookup_failed_message(f.cmd)]>>
                /\ UNCHANGED <<db, nsaved, deferred>>
           ELSE IF prediction.st = "none"
           THEN /\ outbox' = <<>>
                /\ UNCHANGED <<db, nsaved, deferred>>
           ELSE /\ db' = save_prediction(db, prediction.symbol, prediction.nick,
                             prediction.base, prediction.prediction, now,
                             nsaved + 1)
                /\ nsaved' = nsaved + 1
                /\ deferred' = deferred \cap ids_of(db')
                /\ outbox' = <<[channel |-> f.cmd.channel,
                                msg |-> confirm_message(prediction,
                                    old_str(db, prediction.symbol, prediction.nick),
                                    now)]>>
    /\ settled' = get_daily(response)
    /\ UNCHANGED <<now, config, ninst, call_id, closed, close_raised, body,
                   nticks, ncmds, reported>>
    /\ tickstate' = NoTickState

(***************************************************************************)
(* Specification                                                           *)
(***************************************************************************)
Next ==
    \/ \E i \in Instances : Close(i)
    \/ Construct
    \/ Tock
    \/ \E i \in Instances : Tick(i)
    \/ \E k \in 1..MaxTicks : \E j \in 1..Len(stocks(config)) :
          \E response \in Responses(stocks(config)[j].symbol) :
              TickerSettle(k, j, response)
    \/ \E k \in 1..MaxTicks : PauseWake(k)
    \/ \E k \in 1..MaxTicks : \E s \in Symbols :
          \E response \in Responses(s) : ResolveSettle(k, s, response)
    \/ \E k \in 1..MaxTicks : SleepWake(k)
    \/ \E cmd \in Commands : Predict(cmd)
    \/ \E f \in in_flight :
          \E response \in Responses(f.cmd.symbol) : PredictSettle(f, response)

Spec == Init /\ [][Next]_vars

(***************************************************************************)
(* The market clock alone: a tick fires at any minute of the week          *)
(***************************************************************************)
FullConfig == [channels |-> <<"#a", "#b">>, stocks |-> AllStocks]

InitClock ==
    /\ now \in {TimeOf(w, h, m, 0) : w \in 0..6, h \in 0..23, m \in 0..59}
    /\ config = FullConfig
    /\ db = <<>>
    /\ ninst = 1
    /\ call_id = [i \in Instances |->
                    IF i = 1 THEN [state |-> "pending", due |-> now] ELSE NoCall]
    /\ closed = [i \in Instances |-> FALSE]
    /\ close_raised = FALSE
    /\ body = [k \in 1..MaxTicks |-> IdleBody]
    /\ nticks = 0
    /\ in_flight = {}
    /\ ncmds = 0
    /\ nsaved = 0
    /\ outbox = <<>>
    /\ reported = [id \in 1..(MaxStored + MaxSaves) |-> 0]
    /\ deferred = {}
    /\ settled = NoResult
    /\ tickstate = NoTickState

NextClock == nticks = 0 /\ Tick(1)

SpecClock == InitClock /\ [][NextClock]_vars

(***************************************************************************)
(* The resolver alone: a round is about to settle the quote of a symbol    *)
(* whose snapshot is any sequence of predictions by distinct submitters    *)
(***************************************************************************)
ResolveNicks == {"u1", "u2", "u3"}
PredictedPrices == {9800, 10000, 10500}
BasePrices == {9800, 10000}

\* the inner dicts of up to three submitters, in every insertion order
Snapshots ==
    LET P(n, id) == { Prediction(n, TimeOf(3, 12, 0, 0), b, v, id) :
                        b \in BasePrices, v \in PredictedPrices }
    IN  UNION { { <<p1>> : p1 \in P(n1, 1) } : n1 \in ResolveNicks }
        \cup
        UNION { { <<p1, p2>> : p1 \in P(n[1], 1), p2 \in P(n[2], 2) } :
                n \in {m \in ResolveNicks \X ResolveNicks : m[1] # m[2]} }
        \cup
        UNION { { <<p1, p2, p3>> : p1 \in P(n[1], 1), p2 \in P(n[2], 2),
                                   p3 \in P(n[3], 3) } :
                n \in {m \in ResolveNicks \X ResolveNicks \X ResolveNicks :
                          m[1] # m[2] /\ m[1] # m[3] /\ m[2] # m[3]} }

InitResolve ==
    /\ now \in {TimeOf(4, 9, 31, 0), TimeOf(4, 16, 1, 0)}
    /\ config = FullConfig
    /\ \E predictions \in Snapshots :
          db = <<[symbol |-> "AAA", predictions |-> predictions]>>
    /\ ninst = 1
    /\ call_id = [i \in Instances |-> IF i = 1 THEN wait(now - TickerPause) ELSE NoCall]
    /\ closed = [i \in Instances |-> FALSE]
    /\ close_raised = FALSE
    /\ body = [k \in 1..MaxTicks |->
                 IF k = 1
                 THEN [IdleBody EXCEPT !.pc = "fetch", !.inst = 1,
                                       !.at = now - TickerPause, !.predict = TRUE,
                                       !.symbols = <<"AAA">>, !.idx = 1,
                                       !.fetched = now]
                 ELSE IdleBody]
    /\ nticks = 1
    /\ in_flight = {}
    /\ ncmds = 0
    /\ nsaved = Cardinality(Stored(db))
    /\ outbox = <<>>
    /\ reported = [id \in 1..Cardinality(ResolveNicks) |-> 0]
    /\ deferred = {}
    /\ settled = NoResult
    /\ tickstate = NoTickState

NextResolve ==
    \/ \E response \in AllResponses("AAA") : ResolveSettle(1, "AAA", response)
    \/ Tock
    \/ SleepWake(1)

SpecResolve == InitResolve /\ [][NextResolve]_vars

(***************************************************************************)
(* Submission alone: !predict messages of every accepted form arrive while *)
(* the market is open or closed                                            *)
(***************************************************************************)
InitPredict ==
    /\ now \in {TimeOf(4, 12, 0, 0), TimeOf(4, 18, 0, 0)}
    /\ config = FullConfig
    /\ db \in InitStores
    /\ ninst = 1
    /\ call_id = [i \in Instances |-> IF i = 1 THEN wait(now) ELSE NoCall]
    /\ closed = [i \in Instances |-> FALSE]
    /\ close_raised = FALSE
    /\ body = [k \in 1..MaxTicks |-> IdleBody]
    /\ nticks = 0
    /\ in_flight = {}
    /\ ncmds = 0
    /\ nsaved = Cardinality(Stored(db))
    /\ outbox = <<>>
    /\ reported = [id \in 1..(MaxStored + MaxSaves) |-> 0]
    /\ deferred = {}
    /\ settled = NoResult
    /\ tickstate = NoTickState

NextPredict ==
    \/ \E cmd \in AllCommands : Predict(cmd)
    \/ \E f \in in_flight :
          \E response \in AllResponses(f.cmd.symbol) : PredictSettle(f, response)

SpecPredict == InitPredict /\ [][NextPredict]_vars

(***************************************************************************)
(* The scheduler alone: an instance is constructed at any second of an     *)
(* hour of a day without trading, and its ticks fire                       *)
(***************************************************************************)
InitWait ==
    /\ now \in {TimeOf(5, 9, m, s) : m \in 0..59, s \in 0..59}
    /\ config = [channels |-> <<>>, stocks |-> <<>>]
    /\ db = <<>>
    /\ ninst = 1
    /\ call_id = [i \in Instances |-> IF i = 1 THEN wait(now) ELSE NoCall]
    /\ closed = [i \in Instances |-> FALSE]
    /\ close_raised = FALSE
    /\ body = [k \in 1..MaxTicks |-> IdleBody]
    /\ nticks = 0
    /\ in_flight = {}
    /\ ncmds = 0
    /\ nsaved = 0
    /\ outbox = <<>>
    /\ reported = [id \in 1..(MaxStored + MaxSaves) |-> 0]
    /\ deferred = {}
    /\ settled = NoResult
    /\ tickstate = NoTickState

NextWait == Tock \/ Tick(1)

SpecWait == InitWait /\ [][NextWait]_vars

(***************************************************************************)
(* Properties                                                              *)
(***************************************************************************)
\* every stored prediction with the symbol it is stored under
StoredAt(d) ==
    UNION { {[symbol |-> d[i].symbol, p |-> d[i].predictions[j]] :
                j \in 1..Len(d[i].predictions)} : i \in 1..Len(d) }

\* the generator of tick k is suspended at a yield
active(b) == b.pc \in {"ticker", "pause", "fetch", "sleep"}

\* this step resolves the current symbol of round k (lines 263-308)
ResolveStep(k) == body[k].pc = "fetch" /\ body'[k].pc = "sleep"

\* this step is an `except` of lines 253-261 in round k
FailStep(k) ==
    /\ body[k].pc = "fetch"
    /\ body'[k] # body[k]
    /\ settled'.st \in {"failure", "none"}

\* the symbol round k is fetching
current(k) == body[k].symbols[body[k].idx]

\* the per-submitter result messages for (nick, symbol) sent to channel n
result_messages(box, n, nick, symbol) ==
    { m \in 1..Len(box) :
        /\ box[m].channel = config.channels[n]
        /\ box[m].msg.kind = "prediction"
        /\ box[m].msg.nick = nick
        /\ box[m].msg.symbol = symbol }

\* minutes since midnight
hm(t) == hour(t) * 60 + minute(t)

\* Monday to Friday, 09:30 to 16:00
InSession(t) == weekday(t) \in 0..4 /\ hm(t) >= 9 * 60 + 30 /\ hm(t) <= 16 * 60

\* C1: under every interleaving of submissions with the steps of resolution
\* rounds, a saved prediction leaves the store only by being overwritten by
\* its own submitter or by being resolved; when resolved it is reported by
\* exactly one send_prediction call (one result message in every channel),
\* it is never reported twice nor while stored, it never comes back, and
\* right after a symbol is resolved the store has no entry for the symbol.
C1_ResolvedExactlyOnce ==
    [][ /\ \A e \in StoredAt(db) : e.p.id \notin ids_of(db') =>
              \/ /\ nsaved' = nsaved + 1
                 /\ reported' = reported
                 /\ \E e2 \in StoredAt(db') :
                       /\ e2.p.id = nsaved'
                       /\ e2.symbol = e.symbol
                       /\ e2.p.nick = e.p.nick
              \/ /\ \E k \in 1..MaxTicks : ResolveStep(k) /\ current(k) = e.symbol
                 /\ reported[e.p.id] = 0
                 /\ reported'[e.p.id] = 1
                 /\ \A n \in 1..Len(config.channels) :
                       Cardinality(result_messages(outbox', n, e.p.nick, e.symbol)) = 1
        /\ \A id \in DOMAIN reported : reported'[id] # reported[id] =>
              /\ id \in ids_of(db)
              /\ id \notin ids_of(db')
              /\ reported[id] = 0
              /\ reported'[id] = 1
        /\ \A id \in ids_of(db') :
              /\ id \in ids_of(db) \/ (id = nsaved + 1 /\ nsaved' = nsaved + 1)
              /\ reported'[id] = 0
        /\ \A k \in 1..MaxTicks : ResolveStep(k) => ~has_key(db', current(k))
      ]_vars

\* C1 witness: a symbol has just been resolved and reported, and a submission
\* that arrived in the same round after the snapshot is in the store
C1_Witness ==
    \E k \in 1..MaxTicks :
        /\ body[k].pc = "sleep"
        /\ has_key(db, current(k))
        /\ \E id \in DOMAIN reported : reported[id] = 1

\* C2: the submitter named as closest guess in the summary has a predicted
\* price that minimises |actual - predicted| over the snapshot.
C2_ClosestMinimises ==
    [][ \A k \in 1..MaxTicks : ResolveStep(k) /\ config.channels # <<>> =>
            LET predictions == item(db, current(k))
                actual == settled'.price
                summary == outbox'[Len(outbox')].msg
            IN  /\ summary.kind = "summary"
                /\ has_nick(predictions, summary.nick)
                /\ \A n \in 1..Len(predictions) :
                      abs(actual - by_nick(predictions, summary.nick).prediction)
                          <= abs(actual - predictions[n].prediction)
      ]_vars

\* C3: when the quote fetch of a symbol fails in a round, the store is left
\* unchanged, exactly one error message for the symbol goes to every
\* channel, the round goes on with the next symbol, and the predictions left
\* behind are listed again when the next round starts.
C3_FailedFetchDefers ==
    [][ \A k \in 1..MaxTicks :
          /\ FailStep(k) =>
                /\ db' = db
                /\ Len(outbox') = Len(config.channels)
                /\ \A n \in 1..Len(config.channels) :
                      outbox'[n] = [channel |-> config.channels[n],
                                    msg |-> [kind |-> "error", symbol |-> current(k)]]
                /\ ids(get_default(db, current(k))) \subseteq deferred'
                /\ IF body[k].idx < Len(body[k].symbols)
                   THEN /\ body'[k].pc = "fetch"
                        /\ body'[k].symbols = body[k].symbols
                        /\ body'[k].idx = body[k].idx + 1
                   ELSE body'[k].pc = "done"
          /\ (body[k].pc = "pause" /\ body'[k].pc # "pause") =>
                \A e \in StoredAt(db) : e.p.id \in deferred =>
                    /\ body'[k].pc = "fetch"
                    /\ \E n \in 1..Len(body'[k].symbols) :
                          body'[k].symbols[n] = e.symbol
      ]_vars

\* C3 witness: a later round is fetching the quote of a symbol whose
\* predictions an earlier failed fetch left in the store
C3_Witness ==
    \E k \in 1..MaxTicks :
        /\ body[k].pc = "fetch"
        /\ \E e \in StoredAt(db) : e.p.id \in deferred /\ e.symbol = current(k)

\* C4: the timer of the next tick is armed before the tick body does
\* anything: from construction until close() an instance always has a
\* pending timer, and while a tick body of an open instance is in flight the
\* pending timer is the one of a later tick.
C4_TimerArmedFirst ==
    /\ \A i \in Instances : (i <= ninst /\ ~closed[i]) =>
          call_id[i].state = "pending"
    /\ \A k \in 1..MaxTicks : (active(body[k]) /\ ~closed[body[k].inst]) =>
          /\ call_id[body[k].inst].state = "pending"
          /\ call_id[body[k].inst].due > body[k].at

\* C4 witness: a tick body is waiting for a quote while the timer of the
\* next tick is pending
C4_Witness ==
    \E k \in 1..MaxTicks :
        /\ body[k].pc \in {"ticker", "fetch"}
        /\ ~closed[body[k].inst]
        /\ call_id[body[k].inst].state = "pending"

\* C5: after close() no timer of the instance is pending, also when one of
\* its tick bodies is in flight, and tick() never starts again for it; after
\* close() and the construction of a replacement exactly one timer is
\* pending; and close() never raises, whatever the state of the handle.
C5_CloseCancels ==
    /\ [](/\ \A i \in Instances : closed[i] => call_id[i].state = "cancelled"
          /\ Cardinality({i \in Instances : call_id[i].state = "pending"})
                = IF closed[ninst] THEN 0 ELSE 1
          /\ ~close_raised
          /\ \A i \in Instances : i <= ninst => ~cancel(call_id[i]).raised)
    /\ [][ nticks' # nticks =>
              \E i \in Instances : ~closed[i] /\ call_id'[i] # call_id[i] ]_vars

\* C5 witness: the first instance was closed while one of its tick bodies
\* was in flight, and its replacement has been constructed
C5_Witness ==
    /\ closed[1]
    /\ ninst = 2
    /\ ~closed[2]
    /\ \E k \in 1..MaxTicks : active(body[k]) /\ body[k].inst = 1

\* C6: a save leaves exactly one stored prediction for (symbol, submitter),
\* the one just saved; the one it replaces is quoted in the confirmation and
\* not retained; every other prediction is unchanged; and the store never
\* holds two predictions for the same (symbol, submitter).
C6_SaveOverwrites ==
    [][ nsaved' = nsaved + 1 =>
          \E new \in StoredAt(db') :
            /\ new.p.id = nsaved'
            /\ \A e1, e2 \in StoredAt(db') :
                  (e1.symbol = e2.symbol /\ e1.p.nick = e2.p.nick) => e1 = e2
            /\ Len(outbox') = 1
            /\ outbox'[1].msg.kind = "confirm"
            /\ outbox'[1].msg.prediction = new.p.prediction
            /\ \A e \in StoredAt(db) :
                  IF e.symbol = new.symbol /\ e.p.nick = new.p.nick
                  THEN /\ e \notin StoredAt(db')
                       /\ outbox'[1].msg.old.set
                       /\ outbox'[1].msg.old.prediction = e.p.prediction
                  ELSE e \in StoredAt(db')
            /\ (~ \E e \in StoredAt(db) :
                    e.symbol = new.symbol /\ e.p.nick = new.p.nick)
                  => ~outbox'[1].msg.old.set
            /\ StoredAt(db') \ {new} \subseteq StoredAt(db)
      ]_vars

\* C6 witness: a confirmation that quotes a replaced prediction was sent
C6_Witness ==
    /\ outbox # <<>>
    /\ outbox[1].msg.kind = "confirm"
    /\ outbox[1].msg.old.set

\* C7: a tick starts the resolver only if at its time the market is open and
\* the time is 09:30 or 16:00, and a symbol's predictions are removed from
\* the store only by the round of such a tick.
C7_ResolverOnlyAtBoundary ==
    /\ [](\A k \in 1..MaxTicks : body[k].pc \in {"pause", "fetch", "sleep"} =>
            /\ InSession(body[k].at)
            /\ hm(body[k].at) \in {9 * 60 + 30, 16 * 60})
    /\ [][ \A s \in Symbols : (has_key(db, s) /\ ~has_key(db', s)) =>
              \E k \in 1..MaxTicks :
                  /\ body[k].pc = "fetch"
                  /\ InSession(body[k].at)
                  /\ hm(body[k].at) \in {9 * 60 + 30, 16 * 60} ]_vars

\* C7 witness: a tick has fired on Saturday at 09:30 with predictions in the
\* store and its body has ended
C7_Witness ==
    /\ nticks >= 1
    /\ tickstate.at = TimeOf(5, 9, 30, 0)
    /\ body[nticks].pc = "done"
    /\ db # <<>>

\* C8: when the broadcaster's last fetch settles exactly one digest goes to
\* every channel; its entries are the configured symbols whose fetch
\* succeeded, in configured order, each with its fetched change; and the
\* broadcast does not raise.
C8_DigestOfSuccesses ==
    [][ \A k \in 1..MaxTicks : (body[k].pc = "ticker" /\ body'[k].pc # "ticker") =>
          LET ok(j) == IF body[k].results[j] = PendingResult
                       THEN settled'.st = "data"
                       ELSE body[k].results[j].st = "ok"
              change(j) == IF body[k].results[j] = PendingResult
                           THEN settled'.change
                           ELSE body[k].results[j].change
              succeeded == {j \in 1..Len(config.stocks) : ok(j)}
              nth(a) == CHOOSE j \in succeeded :
                            Cardinality({l \in succeeded : l < j}) = a - 1
          IN  /\ body'[k].pc # "raised"
              /\ Len(outbox') = Len(config.channels)
              /\ \A n \in 1..Len(config.channels) :
                    /\ outbox'[n].channel = config.channels[n]
                    /\ outbox'[n].msg.kind = "ticker"
                    /\ Len(outbox'[n].msg.parts) = Cardinality(succeeded)
                    /\ \A a \in 1..Cardinality(succeeded) :
                          /\ outbox'[n].msg.parts[a].symbol
                                = config.stocks[nth(a)].symbol
                          /\ outbox'[n].msg.parts[a].name
                                = config.stocks[nth(a)].name
                          /\ outbox'[n].msg.parts[a].change.pct = change(nth(a))
      ]_vars

\* C8 witness: a digest that holds only the second configured symbol, the
\* fetch of the first having failed
C8_Witness ==
    /\ Len(outbox) = Len(config.channels)
    /\ outbox # <<>>
    /\ outbox[1].msg.kind = "ticker"
    /\ Len(outbox[1].msg.parts) = 1
    /\ outbox[1].msg.parts[1].symbol = "BBB"

\* C9: the market-open flag of a tick, and market_is_open() at the same
\* time, are both true iff the time is Monday to Friday, 09:30 to 16:00.
C9_MarketOpen ==
    nticks = 1 =>
        /\ tickstate.is_market_open = InSession(tickstate.at)
        /\ market_is_open(tickstate.at) = InSession(tickstate.at)

\* C9 witness: a tick at exactly 16:00 on a Friday finds the market open
C9_Witness ==
    /\ nticks = 1
    /\ tickstate.at = TimeOf(4, 16, 0, 0)
    /\ tickstate.is_market_open

\* C10 as stated: the open-boundary flag is true iff the time is a weekday
\* at exactly 09:30, the close-boundary flag iff it is exactly 16:00.
C10_Original ==
    nticks = 1 =>
        /\ tickstate.is_open =
              (weekday(tickstate.at) \in 0..4 /\ hm(tickstate.at) = 9 * 60 + 30)
        /\ tickstate.is_close = (hm(tickstate.at) = 16 * 60)

\* C10 amended: the open-boundary flag is true iff the time is exactly 09:30
\* on any day of the week, the close-boundary flag iff it is exactly 16:00.
C10_BoundaryFlags ==
    nticks = 1 =>
        /\ tickstate.is_open = (hm(tickstate.at) = 9 * 60 + 30)
        /\ tickstate.is_close = (hm(tickstate.at) = 16 * 60)

\* C10 witness: a tick on Saturday at 09:30 has the open-boundary flag set
C10_Witness ==
    /\ nticks = 1
    /\ tickstate.at = TimeOf(5, 9, 30, 0)
    /\ tickstate.is_open

\* C11: when the quote of a submission arrives, a prediction of the submitter
\* is stored for the symbol; its base is the previous close if the market is
\* open and the latest price otherwise; for a percentage p its predicted price
\* is base + p/100 * base, or base - p/100 * base when the sign is '-'; and
\* the result message of that prediction shows its change against that base.
C11_BaseAndPercentage ==
    [][ \A f \in in_flight : (f \notin in_flight' /\ settled'.st = "data") =>
          LET nick == parse_nick(f.cmd)
              symbol == f.cmd.symbol
              base == IF market_is_open(now)
                      THEN settled'.previous_close ELSE settled'.price
          IN  /\ has_key(db', symbol)
              /\ has_nick(item(db', symbol), nick)
              /\ LET p == by_nick(item(db', symbol), nick)
                 IN  /\ p.id = nsaved + 1
                     /\ p.base = base
                     /\ f.cmd.has_pct =>
                          p.prediction * 100 =
                              IF f.cmd.sign = "-"
                              THEN base * 100 - f.cmd.number * base
                              ELSE base * 100 + f.cmd.number * base
                     /\ prediction_message(nick, symbol, p, settled'.price, now)
                            .prediction_change
                          = colorize(get_delta(p.prediction, base))
      ]_vars

\* C12: whenever a timer is armed, on start and on every re-arm, it is due at
\* the next 15-minute boundary of the wall clock with second 0, and every
\* tick fires at such a boundary.
C12_ExactBoundary ==
    /\ [](\A i \in Instances : call_id[i].state = "pending" =>
            /\ second(call_id[i].due) = 0
            /\ minute(call_id[i].due) % 15 = 0
            /\ call_id[i].due >= now
            /\ call_id[i].due - now <= 15 * 60)
    /\ [][ nticks' = nticks + 1 =>
              /\ second(now) = 0
              /\ minute(now) % 15 = 0
              /\ \A i \in Instances : call_id'[i].state = "pending" =>
                    call_id'[i].due - now = 15 * 60 ]_vars

\* C13 as stated: started at 09:47, the timer is armed for 09:50.
C13_Original ==
    (nticks = 0 /\ hour(now) = 9 /\ minute(now) = 47) =>
        /\ call_id[1].state = "pending"
        /\ hour(call_id[1].due) = 9
        /\ minute(call_id[1].due) = 50

\* C13 amended: started at 09:47:ss, the timer is armed 13 minutes later, for
\* 10:00:ss, the next quarter of the hour.
C13_ArmsNextQuarter ==
    (nticks = 0 /\ hour(now) = 9 /\ minute(now) = 47) =>
        /\ call_id[1].state = "pending"
        /\ call_id[1].due = now + 13 * 60
        /\ hour(call_id[1].due) = 10
        /\ minute(call_id[1].due) = 0
        /\ second(call_id[1].due) = second(now)

\* C13 witness: an instance constructed at 09:47:00 has its timer due at
\* 10:00:00
C13_Witness ==
    /\ nticks = 0
    /\ now = TimeOf(5, 9, 47, 0)
    /\ call_id[1] = [state |-> "pending", due |-> TimeOf(5, 10, 0, 0)]

\* C14: every symbol key of the prediction store maps to a non-empty inner
\* mapping of submitters.
C14_NoEmptySymbol ==
    \A i \in 1..Len(db) : db[i].predictions # <<>>

\* C14 witness: a prediction has just been saved after a symbol was resolved
\* and removed from the store
C14_Witness ==
    /\ db # <<>>
    /\ \E id \in DOMAIN reported : reported[id] = 1
    /\ outbox # <<>>
    /\ outbox[1].msg.kind = "confirm"

\* C15: the submitter named as closest guess is the first one in snapshot
\* order among those whose delta is minimal: a leader is replaced only by a
\* later submitter with a strictly smaller delta, a leader with delta 0
\* included.
C15_FirstOfTheClosest ==
    [][ \A k \in 1..MaxTicks : ResolveStep(k) /\ config.channels # <<>> =>
            LET predictions == item(db, current(k))
                delta(n) == abs(settled'.price - predictions[n].prediction)
                first == CHOOSE n \in 1..Len(predictions) :
                            \A m \in 1..Len(predictions) :
                                \/ delta(n) < delta(m)
                                \/ delta(n) = delta(m) /\ n <= m
            IN  outbox'[Len(outbox')].msg.nick = predictions[first].nick
      ]_vars

\* C16: within a round, the request for the quote of a symbol is issued at
\* least the inter-symbol pause (15 s) after the request for the symbol
\* before it, whether that one succeeded or failed.
C16_PauseBetweenFetches ==
    [][ \A k \in 1..MaxTicks :
          ( /\ body[k].pc \in {"fetch", "sleep"}
            /\ body'[k].pc = "fetch"
            /\ body'[k].idx = body[k].idx + 1 ) =>
              body'[k].fetched - body[k].fetched >= ResolverPause
      ]_vars

\* C17: in a tick that runs the resolver, the digest is sent when the last
\* broadcaster fetch settles and the inter-phase pause (60 s) starts then;
\* the resolver requests its first quote only once that pause is over; and
\* it requests the quote of a later symbol only in the step in which the
\* quote of the symbol before it has settled or after the sleep that follows
\* it, one symbol after another.
C17_BroadcastPauseResolve ==
    [][ \A k \in 1..MaxTicks :
          /\ (body[k].pc = "idle" /\ body'[k].pc # "idle") =>
                /\ body'[k].pc \in {"ticker", "pause", "done"}
                /\ body'[k].pc = "pause" =>
                      /\ ~tickstate'.should_send_ticker
                      /\ body'[k].wake = now + TickerPause
          /\ (body[k].pc = "ticker" /\ body'[k].pc # "ticker") =>
                /\ Cardinality({j \in 1..Len(body[k].results) :
                                  body[k].results[j] = PendingResult}) = 1
                /\ settled'.st # "idle"
                /\ Len(outbox') = Len(config.channels)
                /\ \A n \in 1..Len(outbox') : outbox'[n].msg.kind = "ticker"
                /\ body'[k].pc = IF body[k].predict THEN "pause" ELSE "done"
                /\ body'[k].pc = "pause" => body'[k].wake = now + TickerPause
          /\ (body'[k].pc = "fetch" /\ body'[k] # body[k]) =>
                IF body'[k].idx = 1
                THEN /\ body[k].pc = "pause"
                     /\ body'[k].fetched >= body[k].wake
                     /\ body'[k].fetched >= body[k].at + TickerPause
                ELSE /\ body[k].pc \in {"fetch", "sleep"}
                     /\ body'[k].idx = body[k].idx + 1
                     /\ body'[k].symbols = body[k].symbols
                     /\ body[k].pc = "fetch" => settled'.st # "idle"
                     /\ body[k].pc = "sleep" => now >= body[k].wake
      ]_vars

\* C17 witness: a tick that has broadcast its digest has requested the first
\* quote of its resolution round
C17_Witness ==
    \E k \in 1..MaxTicks :
        /\ body[k].pc = "fetch"
        /\ body[k].idx = 1
        /\ config.channels # <<>>
        /\ config.stocks # <<>>
        /\ body[k].fetched >= body[k].at + TickerPause

\* a coloured change is green when it is non-negative and red when negative
\* (the denominators of the fractions are prices, hence positive)
green_iff_non_negative(c) ==
    c.color = IF c.pct.num >= 0 THEN "light_green" ELSE "light_red"

\* C18: every percent change shown in a digest entry or in a result message
\* is green when the change is non-negative, exactly 0 included, and red
\* when it is negative.
C18_GreenNonNegative ==
    \A n \in 1..Len(outbox) :
        /\ outbox[n].msg.kind = "ticker" =>
              \A a \in 1..Len(outbox[n].msg.parts) :
                  green_iff_non_negative(outbox[n].msg.parts[a].change)
        /\ outbox[n].msg.kind = "prediction" =>
              /\ green_iff_non_negative(outbox[n].msg.prediction_change)
              /\ green_iff_non_negative(outbox[n].msg.actual_change)

\* C19: in the summary of a resolved symbol, the changes shown for the
\* closest prediction and for the actual price are computed against the base
\* stored in the prediction of the submitter the summary names.
C19_SummaryUsesClosestBase ==
    [][ \A k \in 1..MaxTicks : ResolveStep(k) /\ config.channels # <<>> =>
            LET predictions == item(db, current(k))
                summary == outbox'[Len(outbox')].msg
                base == by_nick(predictions, summary.nick).base
            IN  /\ summary.kind = "summary"
                /\ summary.count = Len(predictions)
                /\ summary.prediction_change
                      = colorize(get_delta(summary.prediction, base))
                /\ summary.actual_change
                      = colorize(get_delta(settled'.price, base))
      ]_vars

\* C20: a prediction is resolved only by a round of the boundary its
\* confirmation names: saved while the market is open (confirmed as 'at
\* market close') only by the round of a 16:00 tick, saved while it is closed
\* (confirmed as 'at market open') only by the round of a 09:30 tick.
C20_ResolvedAtNamedBoundary ==
    [][ \A k \in 1..MaxTicks : ResolveStep(k) =>
            LET predictions == item(db, current(k))
            IN  \A n \in 1..Len(predictions) :
                    IF market_is_open(predictions[n].when)
                    THEN tick_is_close(body[k].at)
                    ELSE tick_is_open(body[k].at)
      ]_vars

====
